---------------------------- MODULE Spec2Model ----------------------------
(***************************************************************************)
(* Model of the glTF writer of tools/atlasgen (cgltf_write.h) and of the   *)
(* call main() makes to it.                                                *)
(*                                                                         *)
(* Text is modelled as a sequence of tokens.  Every punctuation character  *)
(* the writer inspects or emits (quotes, colon, space, brackets, comma,    *)
(* digits, the two-space indent unit) is a token of its own; a word made   *)
(* of letters is one token.  The first token of a line is therefore its    *)
(* first character and the last token its last character whenever that     *)
(* character is a bracket.                                                 *)
(*                                                                         *)
(* The output file is a sequence of physical lines, each a sequence of     *)
(* tokens: writing the newline character starts a new physical line, any   *)
(* other token is appended to the last one.  The text of the file is its   *)
(* physical lines joined by newlines.                                      *)
(***************************************************************************)
EXTENDS Integers, Sequences, FiniteSets

(***************************************************************************)
(* Bounds of the model.                                                    *)
(***************************************************************************)
\* Number of loader steps that build the Document: one per mesh, primitive
\* and attribute added and one per optional field given a value.
MaxLoad == 4
\* Sizes of the Document's accessors and materials collections.
NumAccessors == 2
NumMaterials == 2

(***************************************************************************)
(* C values.                                                               *)
(***************************************************************************)
\* The null pointer, for entity and FILE pointers.
NULL == 0
\* A char* is either the null pointer or a string: <<>> or <<s>>.
NullStr == <<>>
Str(s) == <<s>>
\* Base addresses of the Document's collections, in units of one element.
accessors == 16
materials == 32
\* The FILE* a successful fopen returns.
FilePtr == 64
\* cgltf_primitive_type values: points, triangles, triangle_strip.
cgltf_primitive_type_points == 0
cgltf_primitive_type_triangles == 4
cgltf_primitive_type_triangle_strip == 5
PrimitiveTypes ==
    {cgltf_primitive_type_points, cgltf_primitive_type_triangles,
     cgltf_primitive_type_triangle_strip}

\* Strings the loader can give a text field; the empty string is one of them.
Strings == {"", "Plane"}
MeshNames == Strings \cup {"{"}
AttributeNames == {"POSITION", "NORMAL"}
AccessorPtrs == {accessors + n : n \in 0 .. NumAccessors - 1}
MaterialPtrs == {materials + n : n \in 0 .. NumMaterials - 1}

NL == "\n"
Openers == {"[", "{"}
Closers == {"]", "}"}

(***************************************************************************)
(* stdio.  A stream is [file, out]: the FILE* and the content of the file  *)
(* on disk.  A write through a null FILE* is undefined behaviour: `ub'     *)
(* records that one was attempted, and the calling step then either        *)
(* crashes or goes on with nothing written.                                *)
(***************************************************************************)
PutTok(out, t) ==
    IF t = NL THEN Append(out, <<>>)
    ELSE [out EXCEPT ![Len(out)] = Append(@, t)]

RECURSIVE PutToks(_, _)
PutToks(out, toks) ==
    IF toks = <<>> THEN out
    ELSE PutToks(PutTok(out, Head(toks)), Tail(toks))

\* fputs / fputc / the output of fprintf: append the tokens to the stream.
fputs(toks, w) ==
    IF w.context.file = NULL THEN [w EXCEPT !.ub = TRUE]
    ELSE [w EXCEPT !.out = PutToks(@, toks)]

\* printf's %s: the characters of the string; none for the empty string.
FmtS(s) == IF s = "" THEN <<>> ELSE <<s>>

DigitChars == <<"0", "1", "2", "3", "4", "5", "6", "7", "8", "9">>

RECURSIVE FmtU(_)
FmtU(n) ==
    IF n < 10 THEN <<DigitChars[n + 1]>>
    ELSE Append(FmtU(n \div 10), DigitChars[(n % 10) + 1])

\* printf's %d: an optional minus sign and the decimal digits.
FmtD(n) == IF n < 0 THEN <<"-">> \o FmtU(-n) ELSE FmtU(n)

(***************************************************************************)
(* The line emitter.  w is [context, out, ub].                             *)
(***************************************************************************)
\* cgltf_write_cont that counts only '[' as opening a construct.
cgltf_write_cont_BracketOnly(w, line) ==
    LET w1 == fputs(line, w)
        last == Len(line)
        w2 == IF line[1] \in Closers
              THEN [w1 EXCEPT !.context.needs_comma = 1]
              ELSE w1
    IN  IF line[last] = "["
        THEN [w2 EXCEPT !.context.depth = @ + 1, !.context.needs_comma = 0]
        ELSE w2

\* cgltf_write_cont that leaves needs_comma alone after a closing bracket.
cgltf_write_cont_ForgetsCloser(w, line) ==
    LET w1 == fputs(line, w)
        last == Len(line)
    IN  IF line[last] \in Openers
        THEN [w1 EXCEPT !.context.depth = @ + 1, !.context.needs_comma = 0]
        ELSE w1

cgltf_write_cont(w, line) ==
    LET w1 == fputs(line, w)
        last == Len(line)
        w2 == IF line[1] \in Closers
              THEN [w1 EXCEPT !.context.needs_comma = 1]
              ELSE w1
    IN  IF line[last] \in Openers
        THEN [w2 EXCEPT !.context.depth = @ + 1, !.context.needs_comma = 0]
        ELSE w2

RECURSIVE WriteIndentUnits(_, _)
WriteIndentUnits(w, n) ==
    IF n <= 0 THEN w
    ELSE WriteIndentUnits(fputs(<<w.context.indent>>, w), n - 1)

cgltf_write_indent(w) ==
    LET w1 == IF w.context.needs_comma # 0
              THEN [fputs(<<",", NL>>, w) EXCEPT !.context.needs_comma = 0]
              ELSE fputs(<<NL>>, w)
    IN  WriteIndentUnits(w1, w1.context.depth)

\* cgltf_write_line that takes only '}' for a closing bracket.
cgltf_write_line_BraceOnly(w, line) ==
    LET w1 == IF line[1] = "}"
              THEN [w EXCEPT !.context.depth = @ - 1, !.context.needs_comma = 0]
              ELSE w
    IN  cgltf_write_cont(cgltf_write_indent(w1), line)

\* cgltf_write_line that leaves a pending separator pending when it closes.
cgltf_write_line_KeepsSeparator(w, line) ==
    LET w1 == IF line[1] \in Closers
              THEN [w EXCEPT !.context.depth = @ - 1]
              ELSE w
    IN  cgltf_write_cont(cgltf_write_indent(w1), line)

\* cgltf_write_line that steps out of the construct after writing the
\* closing line instead of before.
cgltf_write_line_ClosesLate(w, line) ==
    LET w1 == IF line[1] \in Closers
              THEN [w EXCEPT !.context.needs_comma = 0]
              ELSE w
        w2 == cgltf_write_cont(cgltf_write_indent(w1), line)
    IN  IF line[1] \in Closers
        THEN [w2 EXCEPT !.context.depth = @ - 1]
        ELSE w2

cgltf_write_line(w, line) ==
    LET w1 == IF line[1] \in Closers
              THEN [w EXCEPT !.context.depth = @ - 1, !.context.needs_comma = 0]
              ELSE w
    IN  cgltf_write_cont(cgltf_write_indent(w1), line)

\* cgltf_write_strprop that also skips the empty string.
cgltf_write_strprop_SkipsEmpty(w, label, val) ==
    IF val # NullStr /\ val[1] # ""
    THEN LET w1 == cgltf_write_indent(w)
             w2 == fputs(<<"'">> \o FmtS(label) \o <<"'", ":", " ", "'">>
                         \o FmtS(val[1]) \o <<"'">>, w1)
         IN  [w2 EXCEPT !.context.needs_comma = 1]
    ELSE w

\* cgltf_write_strprop that takes a bracket ending the value for the opening
\* of a construct.
cgltf_write_strprop_CountsBracket(w, label, val) ==
    IF val # NullStr
    THEN LET w1 == cgltf_write_indent(w)
             w2 == fputs(<<"'">> \o FmtS(label) \o <<"'", ":", " ", "'">>
                         \o FmtS(val[1]) \o <<"'">>, w1)
         IN  [w2 EXCEPT !.context.needs_comma = 1,
                        !.context.depth = IF val[1] \in Openers THEN @ + 1 ELSE @]
    ELSE w

cgltf_write_strprop(w, label, val) ==
    IF val # NullStr
    THEN LET w1 == cgltf_write_indent(w)
             w2 == fputs(<<"'">> \o FmtS(label) \o <<"'", ":", " ", "'">>
                         \o FmtS(val[1]) \o <<"'">>, w1)
         IN  [w2 EXCEPT !.context.needs_comma = 1]
    ELSE w

\* cgltf_write_intprop that emits only values above the default.
cgltf_write_intprop_AboveDefault(w, label, val, def) ==
    IF val > def
    THEN LET w1 == cgltf_write_indent(w)
             w2 == fputs(<<"'">> \o FmtS(label) \o <<"'", ":", " ">>
                         \o FmtD(val), w1)
         IN  [w2 EXCEPT !.context.needs_comma = 1]
    ELSE w

cgltf_write_intprop(w, label, val, def) ==
    IF val # def
    THEN LET w1 == cgltf_write_indent(w)
             w2 == fputs(<<"'">> \o FmtS(label) \o <<"'", ":", " ">>
                         \o FmtD(val), w1)
         IN  [w2 EXCEPT !.context.needs_comma = 1]
    ELSE w

\* cgltf_write_idxprop that tests the index instead of the reference.
cgltf_write_idxprop_ZeroAbsent(w, label, val, start) ==
    IF val # NULL /\ val - start # 0
    THEN LET w1 == cgltf_write_indent(w)
             w2 == fputs(<<"'">> \o FmtS(label) \o <<"'", ":", " ">>
                         \o FmtD(val - start), w1)
         IN  [w2 EXCEPT !.context.needs_comma = 1]
    ELSE w

\* cgltf_write_idxprop that marks a separator pending for a null reference too.
cgltf_write_idxprop_AlwaysPending(w, label, val, start) ==
    IF val # NULL
    THEN LET w1 == cgltf_write_indent(w)
             w2 == fputs(<<"'">> \o FmtS(label) \o <<"'", ":", " ">>
                         \o FmtD(val - start), w1)
         IN  [w2 EXCEPT !.context.needs_comma = 1]
    ELSE [w EXCEPT !.context.needs_comma = 1]

\* cgltf_write_idxprop that drops a reference lying before the collection.
cgltf_write_idxprop_DropsNegative(w, label, val, start) ==
    IF val # NULL /\ val - start >= 0
    THEN LET w1 == cgltf_write_indent(w)
             w2 == fputs(<<"'">> \o FmtS(label) \o <<"'", ":", " ">>
                         \o FmtD(val - start), w1)
         IN  [w2 EXCEPT !.context.needs_comma = 1]
    ELSE w

cgltf_write_idxprop(w, label, val, start) ==
    IF val # NULL
    THEN LET w1 == cgltf_write_indent(w)
             w2 == fputs(<<"'">> \o FmtS(label) \o <<"'", ":", " ">>
                         \o FmtD(val - start), w1)
         IN  [w2 EXCEPT !.context.needs_comma = 1]
    ELSE w


(***************************************************************************)
(* The lines the serializers pass to cgltf_write_line.                     *)
(***************************************************************************)
KeyOpen(name, bracket) == <<"'", name, "'", ":", " ", bracket>>

AssetLabels == <<"copyright", "generator", "version", "min_version">>

\* The placeholder blocks with "scene" written before "scenes".
PlaceholderNames_SceneFirst ==
    <<"accessors", "bufferViews", "buffers", "materials", "images",
      "textures", "samplers", "skins", "cameras", "nodes", "scene",
      "scenes", "animations">>

PlaceholderNames ==
    <<"accessors", "bufferViews", "buffers", "materials", "images",
      "textures", "samplers", "skins", "cameras", "nodes", "scenes",
      "scene", "animations">>

(***************************************************************************)
(* State.                                                                  *)
(***************************************************************************)
VARIABLES
    data,       \* the Document (cgltf_data) main() parsed
    loaded,     \* number of loader steps that built it
    pc,         \* the statement main() / cgltf_write_file is at
    mesh_i,     \* loop variable of cgltf_write_file's mesh loop
    prim_i,     \* loop variable of cgltf_write_mesh's primitive loop
    attr_i,     \* loop variable of cgltf_write_primitive's attribute loop
    step,       \* position in a straight-line run of calls (asset fields, placeholders)
    context,    \* the cgltf_write_context of the running call
    sink,       \* content of the output file
    result,     \* what cgltf_write_file returned: "none" until it returns
    last,       \* history: the stdio / emitter call made last
    opened,     \* history: depth before each cgltf_write_line call that opened
                \* a construct not closed yet, innermost last
    stdio,      \* the FILE of the running call: whether it is open, and the
                \* number of fclose calls the running call made
    calls       \* the calls of cgltf_write_file the caller makes: one (main),
                \* or a first one followed by two more on the same Document

vars ==
    <<data, loaded, pc, mesh_i, prim_i, attr_i, step, context, sink, result, last, opened,
      stdio, calls>>

NoCall ==
    [fn |-> "none", site |-> "none", text |-> <<>>, str |-> NullStr, num |-> 0, base |-> 0,
     mesh |-> 0, prim |-> 0, attr |-> 0, step |-> 0, d0 |-> 0, nc0 |-> 0, d1 |-> 0,
     nc1 |-> 0, od |-> -1, wrote |-> FALSE, ub |-> FALSE, row |-> 0]

\* No FILE opened, fclose not called.
NoFile == [open |-> FALSE, fclose_calls |-> 0]

\* main() makes one call.
OneCall == [phase |-> "single", turn |-> 1, first |-> <<>>, other |-> <<>>]

NoAsset ==
    [copyright |-> NullStr, generator |-> NullStr,
     version |-> NullStr, min_version |-> NullStr]

AssetField(asset, n) ==
    CASE n = 1 -> asset.copyright
      [] n = 2 -> asset.generator
      [] n = 3 -> asset.version
      [] n = 4 -> asset.min_version

Init ==
    /\ data = [asset |-> NoAsset, meshes |-> <<>>]
    /\ loaded = 0
    /\ pc = "parse"
    /\ mesh_i = 0
    /\ prim_i = 0
    /\ attr_i = 0
    /\ step = 0
    /\ context = [file |-> NULL, depth |-> 0, needs_comma |-> 0, indent |-> ""]
    /\ sink = << <<>> >>
    /\ result = "none"
    /\ last = NoCall
    /\ opened = <<>>
    /\ stdio = NoFile
    /\ calls = OneCall

(***************************************************************************)
(* The loader: cgltf_parse builds the Document one entity or one optional  *)
(* field at a time, always extending the entity it read last.              *)
(***************************************************************************)
NewPrimitive ==
    [type |-> cgltf_primitive_type_triangles, indices |-> NULL,
     material |-> NULL, attributes |-> <<>>]

Loading == pc = "parse" /\ loaded < MaxLoad

LoadDone(d) ==
    /\ data' = d
    /\ loaded' = loaded + 1
    /\ UNCHANGED <<pc, mesh_i, prim_i, attr_i, step, context, sink, result, last, opened,
                   stdio, calls>>

LastMesh == Len(data.meshes)
LastPrim == Len(data.meshes[LastMesh].primitives)
LastAttr == Len(data.meshes[LastMesh].primitives[LastPrim].attributes)
HasMesh == LastMesh > 0
HasPrim == HasMesh /\ LastPrim > 0
HasAttr == HasPrim /\ LastAttr > 0

LoadAsset ==
    /\ Loading
    /\ \E n \in 1 .. 4, s \in Strings :
        /\ AssetField(data.asset, n) = NullStr
        /\ LoadDone([data EXCEPT !.asset =
              CASE n = 1 -> [@ EXCEPT !.copyright = Str(s)]
                [] n = 2 -> [@ EXCEPT !.generator = Str(s)]
                [] n = 3 -> [@ EXCEPT !.version = Str(s)]
                [] n = 4 -> [@ EXCEPT !.min_version = Str(s)]])

LoadMesh ==
    /\ Loading
    /\ LoadDone([data EXCEPT !.meshes =
          Append(@, [name |-> NullStr, primitives |-> <<>>])])

LoadMeshName ==
    /\ Loading
    /\ HasMesh
    /\ data.meshes[LastMesh].name = NullStr
    /\ \E s \in MeshNames :
        LoadDone([data EXCEPT !.meshes[LastMesh].name = Str(s)])

LoadPrimitive ==
    /\ Loading
    /\ HasMesh
    /\ LoadDone([data EXCEPT !.meshes[LastMesh].primitives = Append(@, NewPrimitive)])

LoadPrimitiveType ==
    /\ Loading
    /\ HasPrim
    /\ data.meshes[LastMesh].primitives[LastPrim].type = cgltf_primitive_type_triangles
    /\ \E t \in PrimitiveTypes \ {cgltf_primitive_type_triangles} :
        LoadDone([data EXCEPT !.meshes[LastMesh].primitives[LastPrim].type = t])

LoadIndices ==
    /\ Loading
    /\ HasPrim
    /\ data.meshes[LastMesh].primitives[LastPrim].indices = NULL
    /\ \E p \in AccessorPtrs :
        LoadDone([data EXCEPT !.meshes[LastMesh].primitives[LastPrim].indices = p])

LoadMaterial ==
    /\ Loading
    /\ HasPrim
    /\ data.meshes[LastMesh].primitives[LastPrim].material = NULL
    /\ \E p \in MaterialPtrs :
        LoadDone([data EXCEPT !.meshes[LastMesh].primitives[LastPrim].material = p])

LoadAttribute ==
    /\ Loading
    /\ HasPrim
    /\ \E n \in AttributeNames :
        LoadDone([data EXCEPT !.meshes[LastMesh].primitives[LastPrim].attributes =
                    Append(@, [name |-> n, data |-> NULL])])

LoadAttributeData ==
    /\ Loading
    /\ HasAttr
    /\ data.meshes[LastMesh].primitives[LastPrim].attributes[LastAttr].data = NULL
    /\ \E p \in AccessorPtrs :
        LoadDone([data EXCEPT
            !.meshes[LastMesh].primitives[LastPrim].attributes[LastAttr].data = p])

(***************************************************************************)
(* One step of the writer: a call made at the current statement.  `w' is   *)
(* the stream and context the call leaves.  The step is recorded; when the *)
(* call wrote through a null FILE* the process may crash instead of going  *)
(* on.                                                                     *)
(***************************************************************************)
W == [context |-> context, out |-> sink, ub |-> FALSE]

\* A cgltf_write_line call opens a construct when its line ends with an opening
\* bracket and closes one when its line begins with a closing bracket.
Opens(fn, text) == fn = "line" /\ text[Len(text)] \in Openers
Closes(fn, text) == fn = "line" /\ text[1] \in Closers

Entry(fn, site, text, str, num, base, w) ==
    [fn |-> fn, site |-> site, text |-> text, str |-> str, num |-> num, base |-> base,
     mesh |-> mesh_i, prim |-> prim_i, attr |-> attr_i, step |-> step,
     d0 |-> context.depth, nc0 |-> context.needs_comma,
     d1 |-> w.context.depth, nc1 |-> w.context.needs_comma,
     od |-> IF Closes(fn, text) /\ opened # <<>> THEN opened[Len(opened)] ELSE -1,
     wrote |-> w.out # sink, ub |-> w.ub, row |-> Len(w.out)]

Call(w, e, npc, mi, pi, ai, st) ==
    /\ last' = e
    /\ \/ /\ context' = w.context
          /\ opened' = IF Closes(e.fn, e.text) THEN SubSeq(opened, 1, Len(opened) - 1)
                       ELSE IF Opens(e.fn, e.text) THEN Append(opened, e.d0)
                       ELSE opened
          /\ sink' = w.out
          /\ pc' = npc
          /\ mesh_i' = mi
          /\ prim_i' = pi
          /\ attr_i' = ai
          /\ step' = st
       \/ /\ w.ub
          /\ pc' = "crashed"
          /\ UNCHANGED <<context, sink, mesh_i, prim_i, attr_i, step, opened>>
    /\ UNCHANGED <<data, loaded, result, stdio, calls>>

WriteLine(site, line, npc, mi, pi, ai, st) ==
    LET w == cgltf_write_line(W, line)
    IN  Call(w, Entry("line", site, line, NullStr, 0, 0, w), npc, mi, pi, ai, st)

StrProp(site, label, val, npc, st) ==
    LET w == cgltf_write_strprop(W, label, val)
    IN  Call(w, Entry("strprop", site, <<label>>, val, 0, 0, w), npc, mesh_i, prim_i, attr_i, st)

IntProp(site, label, val, def, npc) ==
    LET w == cgltf_write_intprop(W, label, val, def)
    IN  Call(w, Entry("intprop", site, <<label>>, NullStr, val, def, w),
             npc, mesh_i, prim_i, attr_i, step)

IdxProp(site, label, val, start, npc, ai) ==
    LET w == cgltf_write_idxprop(W, label, val, start)
    IN  Call(w, Entry("idxprop", site, <<label>>, NullStr, val, start, w),
             npc, mesh_i, prim_i, ai, step)

\* The mesh loop walking the collection from its end.
Mesh_Reversed == data.meshes[Len(data.meshes) - mesh_i]

Mesh == data.meshes[mesh_i + 1]

\* The primitive loop walking the mesh's primitives from their end.
Prim_Reversed == Mesh.primitives[Len(Mesh.primitives) - prim_i]

Prim == Mesh.primitives[prim_i + 1]

Attr == Prim.attributes[attr_i + 1]

(***************************************************************************)
(* cgltf_write_file                                                        *)
(***************************************************************************)
\* The context set up without its needs_comma field.
Fopen_StaleNeedsComma ==
    /\ pc = "parse"
    /\ \E f \in {NULL, FilePtr} :
        /\ context' = [context EXCEPT !.file = f, !.depth = 1, !.indent = "  "]
        /\ sink' = IF f = NULL THEN sink ELSE << <<>> >>
        /\ stdio' = [open |-> f # NULL, fclose_calls |-> 0]
    /\ pc' = "root_open"
    /\ UNCHANGED <<data, loaded, mesh_i, prim_i, attr_i, step, result, last, opened, calls>>

\* main() calls cgltf_write_file; fopen succeeds or fails; the context is set up.
Fopen ==
    /\ pc = "parse"
    /\ \E f \in {NULL, FilePtr} :
        /\ context' = [file |-> f, depth |-> 1, needs_comma |-> 0, indent |-> "  "]
        /\ sink' = IF f = NULL THEN sink ELSE << <<>> >>
        /\ stdio' = [open |-> f # NULL, fclose_calls |-> 0]
    /\ pc' = "root_open"
    /\ UNCHANGED <<data, loaded, mesh_i, prim_i, attr_i, step, result, last, opened, calls>>

RootOpen ==
    /\ pc = "root_open"
    /\ LET w == fputs(<<"{">>, W)
       IN  Call(w, Entry("fputs", "RootOpen", <<"{">>, NullStr, 0, 0, w), "asset", 0, 0, 0, 0)

\* The asset test without its last operand.
HasAsset_WithoutMinVersion ==
    \/ data.asset.copyright # NullStr
    \/ data.asset.generator # NullStr
    \/ data.asset.version # NullStr

HasAsset ==
    \/ data.asset.copyright # NullStr
    \/ data.asset.generator # NullStr
    \/ data.asset.version # NullStr
    \/ data.asset.min_version # NullStr

\* The test that guards the asset block.
AssetTest ==
    /\ pc = "asset"
    /\ pc' = IF HasAsset THEN "asset_open" ELSE "meshes_open"
    /\ UNCHANGED <<data, loaded, mesh_i, prim_i, attr_i, step, context, sink, result, last, opened,
                   stdio, calls>>

\* cgltf_write_asset
AssetOpen ==
    /\ pc = "asset_open"
    /\ WriteLine("AssetOpen", KeyOpen("asset", "{"), "asset_prop", mesh_i, prim_i, attr_i, 1)

AssetProp ==
    /\ pc = "asset_prop"
    /\ StrProp("AssetProp", AssetLabels[step], AssetField(data.asset, step),
               IF step < 4 THEN "asset_prop" ELSE "asset_close",
               IF step < 4 THEN step + 1 ELSE 0)

AssetClose ==
    /\ pc = "asset_close"
    /\ WriteLine("AssetClose", <<"}">>, "meshes_open", mesh_i, prim_i, attr_i, step)

MeshesOpen ==
    /\ pc = "meshes_open"
    /\ WriteLine("MeshesOpen", KeyOpen("meshes", "["), "mesh_loop", 0, prim_i, attr_i, step)

\* cgltf_write_mesh
MeshOpen ==
    /\ pc = "mesh_loop"
    /\ mesh_i < Len(data.meshes)
    /\ WriteLine("MeshOpen", <<"{">>, "mesh_name", mesh_i, prim_i, attr_i, step)

MeshName ==
    /\ pc = "mesh_name"
    /\ StrProp("MeshName", "name", Mesh.name, "primitives_open", step)

PrimitivesOpen ==
    /\ pc = "primitives_open"
    /\ WriteLine("PrimitivesOpen", KeyOpen("primitives", "["), "prim_loop", mesh_i, 0, attr_i, step)

PrimOpen ==
    /\ pc = "prim_loop"
    /\ prim_i < Len(Mesh.primitives)
    /\ WriteLine("PrimOpen", <<"{">>, "prim_mode", mesh_i, prim_i, attr_i, step)

\* cgltf_write_primitive
PrimMode ==
    /\ pc = "prim_mode"
    /\ IntProp("PrimMode", "mode", Prim.type, 4, "prim_indices")

PrimIndices ==
    /\ pc = "prim_indices"
    /\ IdxProp("PrimIndices", "indices", Prim.indices, accessors, "prim_material", attr_i)

PrimMaterial ==
    /\ pc = "prim_material"
    /\ IdxProp("PrimMaterial", "material", Prim.material, materials, "attributes_open", attr_i)

AttributesOpen ==
    /\ pc = "attributes_open"
    /\ WriteLine("AttributesOpen", KeyOpen("attributes", "["), "attr_loop", mesh_i, prim_i, 0, step)

Attribute ==
    /\ pc = "attr_loop"
    /\ attr_i < Len(Prim.attributes)
    /\ IdxProp("Attribute", Attr.name, Attr.data, accessors, "attr_loop", attr_i + 1)

\* The attributes array closed with a brace.
AttributesClose_Brace ==
    /\ pc = "attr_loop"
    /\ ~(attr_i < Len(Prim.attributes))
    /\ WriteLine("AttributesClose", <<"}">>, "prim_close", mesh_i, prim_i, attr_i, step)

AttributesClose ==
    /\ pc = "attr_loop"
    /\ ~(attr_i < Len(Prim.attributes))
    /\ WriteLine("AttributesClose", <<"]">>, "prim_close", mesh_i, prim_i, attr_i, step)

PrimClose ==
    /\ pc = "prim_close"
    /\ WriteLine("PrimClose", <<"}">>, "prim_loop", mesh_i, prim_i + 1, attr_i, step)

PrimitivesClose ==
    /\ pc = "prim_loop"
    /\ ~(prim_i < Len(Mesh.primitives))
    /\ WriteLine("PrimitivesClose", <<"]">>, "mesh_close", mesh_i, prim_i, attr_i, step)

MeshClose ==
    /\ pc = "mesh_close"
    /\ WriteLine("MeshClose", <<"}">>, "mesh_loop", mesh_i + 1, prim_i, attr_i, step)

MeshesClose ==
    /\ pc = "mesh_loop"
    /\ ~(mesh_i < Len(data.meshes))
    /\ WriteLine("MeshesClose", <<"]">>, "placeholder_open", mesh_i, prim_i, attr_i, 1)

PlaceholderOpen ==
    /\ pc = "placeholder_open"
    /\ WriteLine("PlaceholderOpen", KeyOpen(PlaceholderNames[step], "{"), "placeholder_close",
                 mesh_i, prim_i, attr_i, step)

PlaceholderClose ==
    /\ pc = "placeholder_close"
    /\ WriteLine("PlaceholderClose", <<"}">>,
                 IF step < Len(PlaceholderNames) THEN "placeholder_open" ELSE "root_close",
                 mesh_i, prim_i, attr_i,
                 IF step < Len(PlaceholderNames) THEN step + 1 ELSE 0)

RootClose ==
    /\ pc = "root_close"
    /\ LET w == fputs(<<NL, "}", NL>>, W)
       IN  Call(w, Entry("fputs", "RootClose", <<NL, "}", NL>>, NullStr, 0, 0, w),
                "fclose", mesh_i, prim_i, attr_i, step)

\* Returning cgltf_result_success with the FILE left as it is.
Return_WithoutFclose ==
    /\ pc = "fclose"
    /\ pc' = "returned"
    /\ result' = "cgltf_result_success"
    /\ UNCHANGED <<data, loaded, mesh_i, prim_i, attr_i, step, context, sink, last, opened,
                   stdio, calls>>

\* fclose, then return cgltf_result_success.  fclose(NULL) is undefined too.
Return ==
    /\ pc = "fclose"
    /\ \/ /\ pc' = "returned"
          /\ result' = "cgltf_result_success"
          /\ stdio' = [open |-> FALSE, fclose_calls |-> stdio.fclose_calls + 1]
          /\ UNCHANGED context
       \/ /\ context.file = NULL
          /\ pc' = "crashed"
          /\ UNCHANGED <<result, context, stdio>>
    /\ UNCHANGED <<data, loaded, mesh_i, prim_i, attr_i, step, sink, last, opened, calls>>

\* main() ignores the result, frees the Document and prints "Generated".
MainGenerated ==
    /\ pc = "returned"
    /\ pc' = "generated"
    /\ UNCHANGED <<data, loaded, mesh_i, prim_i, attr_i, step, context, sink, result, last, opened,
                   stdio, calls>>

Next ==
    \/ LoadAsset \/ LoadMesh \/ LoadMeshName \/ LoadPrimitive \/ LoadPrimitiveType
    \/ LoadIndices \/ LoadMaterial \/ LoadAttribute \/ LoadAttributeData
    \/ Fopen \/ RootOpen \/ AssetTest \/ AssetOpen \/ AssetProp \/ AssetClose
    \/ MeshesOpen \/ MeshOpen \/ MeshName \/ PrimitivesOpen \/ PrimOpen
    \/ PrimMode \/ PrimIndices \/ PrimMaterial \/ AttributesOpen \/ Attribute
    \/ AttributesClose \/ PrimClose \/ PrimitivesClose \/ MeshClose \/ MeshesClose
    \/ PlaceholderOpen \/ PlaceholderClose \/ RootClose \/ Return \/ MainGenerated

Spec == Init /\ [][Next]_vars

(***************************************************************************)
(* Several calls on one Document.  A caller holding a parsed Document      *)
(* calls cgltf_write_file, and after it has returned calls it twice more   *)
(* on the same Document: once for the same path and once for another path, *)
(* the two calls running at the same time with their steps interleaved.    *)
(* The variables of the writer are those of the call that is running; the  *)
(* other call's automatic variables and its file are kept in calls.other.  *)
(***************************************************************************)
EmptyDocument == [asset |-> NoAsset, meshes |-> <<>>]

PlaneDocument ==
    [asset |-> [NoAsset EXCEPT !.generator = Str("Plane"), !.version = Str("")],
     meshes |-> <<
        [name |-> Str("Plane"),
         primitives |-> <<
            [type |-> cgltf_primitive_type_points,
             indices |-> accessors,
             material |-> materials + 1,
             attributes |-> << [name |-> "POSITION", data |-> accessors + 1],
                               [name |-> "NORMAL", data |-> accessors] >>] >>] >>]

TwoMeshDocument ==
    [asset |-> NoAsset,
     meshes |-> <<
        [name |-> NullStr,
         primitives |-> <<
            NewPrimitive,
            [NewPrimitive EXCEPT !.attributes = << [name |-> "NORMAL", data |-> NULL] >>] >>],
        [name |-> Str(""), primitives |-> <<>>] >>]

\* A Document whose references do not point into the collections they are
\* declared for: one element before the accessors, one element past the
\* materials, one element past the accessors.
DanglingDocument ==
    [asset |-> NoAsset,
     meshes |-> <<
        [name |-> NullStr,
         primitives |-> <<
            [type |-> cgltf_primitive_type_triangles,
             indices |-> accessors - 1,
             material |-> materials + NumMaterials,
             attributes |-> << [name |-> "POSITION", data |-> accessors + NumAccessors] >>] >>] >>]

Documents == {EmptyDocument, PlaneDocument, TwoMeshDocument, DanglingDocument}

InitCalls ==
    /\ data \in Documents
    /\ loaded = 0
    /\ pc = "parse"
    /\ mesh_i = 0
    /\ prim_i = 0
    /\ attr_i = 0
    /\ step = 0
    /\ context = [file |-> NULL, depth |-> 0, needs_comma |-> 0, indent |-> ""]
    /\ sink = << <<>> >>
    /\ result = "none"
    /\ last = NoCall
    /\ opened = <<>>
    /\ stdio = NoFile
    /\ calls = [OneCall EXCEPT !.phase = "first"]

\* The automatic variables and the file of the running call.
Running ==
    [pc |-> pc, mesh_i |-> mesh_i, prim_i |-> prim_i, attr_i |-> attr_i, step |-> step,
     context |-> context, sink |-> sink, result |-> result, last |-> last,
     opened |-> opened, stdio |-> stdio]

Resume(c) ==
    /\ pc' = c.pc
    /\ mesh_i' = c.mesh_i
    /\ prim_i' = c.prim_i
    /\ attr_i' = c.attr_i
    /\ step' = c.step
    /\ context' = c.context
    /\ sink' = c.sink
    /\ result' = c.result
    /\ last' = c.last
    /\ opened' = c.opened
    /\ stdio' = c.stdio

\* A call about to start: no statement executed; its context is the automatic
\* variable declared at the top of cgltf_write_file, holding what the stack
\* held; `file' is what the file at its path holds.
NewCall(file) ==
    [pc |-> "parse", mesh_i |-> 0, prim_i |-> 0, attr_i |-> 0, step |-> 0,
     context |-> context, sink |-> file, result |-> "none", last |-> NoCall,
     opened |-> <<>>, stdio |-> NoFile]

\* The first call has returned; the caller keeps its text and makes two more
\* calls on the same Document: one for the same path, one for another path.
WriteAgain ==
    /\ calls.phase = "first"
    /\ pc = "returned"
    /\ calls' = [phase |-> "pair", turn |-> 1,
                 first |-> [data |-> data, text |-> sink],
                 other |-> NewCall(<< <<>> >>)]
    /\ Resume(NewCall(sink))
    /\ UNCHANGED <<data, loaded>>

\* The two calls using one context between them.
Switch_SharedContext ==
    /\ calls.phase = "pair"
    /\ calls' = [calls EXCEPT !.turn = 3 - @, !.other = Running]
    /\ Resume([calls.other EXCEPT !.context = context])
    /\ UNCHANGED <<data, loaded>>

\* The running call is suspended and the other call goes on.
Switch ==
    /\ calls.phase = "pair"
    /\ calls' = [calls EXCEPT !.turn = 3 - @, !.other = Running]
    /\ Resume(calls.other)
    /\ UNCHANGED <<data, loaded>>

\* The files of these calls can be opened.
FopenOk == Fopen /\ context'.file # NULL

NextCalls ==
    \/ FopenOk \/ RootOpen \/ AssetTest \/ AssetOpen \/ AssetProp \/ AssetClose
    \/ MeshesOpen \/ MeshOpen \/ MeshName \/ PrimitivesOpen \/ PrimOpen
    \/ PrimMode \/ PrimIndices \/ PrimMaterial \/ AttributesOpen \/ Attribute
    \/ AttributesClose \/ PrimClose \/ PrimitivesClose \/ MeshClose \/ MeshesClose
    \/ PlaceholderOpen \/ PlaceholderClose \/ RootClose \/ Return
    \/ WriteAgain \/ Switch

SpecCalls == InitCalls /\ [][NextCalls]_vars

(***************************************************************************)
(* Reading the output text back.                                           *)
(***************************************************************************)
RECURSIVE StripIndent(_)
StripIndent(L) ==
    IF L # <<>> /\ Head(L) = "  " THEN StripIndent(Tail(L)) ELSE L

\* Number of indent units a physical line starts with.
IndentOf(L) == Len(L) - Len(StripIndent(L))

\* Whether the physical line ends with an item separator.
HasSep(L) == L # <<>> /\ L[Len(L)] = ","

\* The physical line without its indentation and without its separator.
Body(L) ==
    LET b == StripIndent(L)
    IN  IF HasSep(b) THEN SubSeq(b, 1, Len(b) - 1) ELSE b

\* "close": begins with a closing bracket; "open": ends with an opening
\* bracket; "prop": any other text; "blank": no text.
Kind(L) ==
    LET b == Body(L)
    IN  IF b = <<>> THEN "blank"
        ELSE IF b[1] \in Closers THEN "close"
        ELSE IF b[Len(b)] \in Openers THEN "open"
        ELSE "prop"

\* Row of the line that opens the construct the closing line at row c closes,
\* 0 if there is none: scan back from row q with `bal' closed constructs pending.
RECURSIVE OpenerOf(_, _, _)
OpenerOf(text, q, bal) ==
    IF q = 0 THEN 0
    ELSE IF Kind(text[q]) = "close" THEN OpenerOf(text, q - 1, bal + 1)
    ELSE IF Kind(text[q]) = "open"
         THEN IF bal = 0 THEN q ELSE OpenerOf(text, q - 1, bal - 1)
    ELSE OpenerOf(text, q - 1, bal)

\* Rows of the direct children of the construct opened at row o and closed at
\* row c, given as the row each child starts at and the row each child ends at:
\* scan forward from row q at relative nesting `lvl'.
RECURSIVE ChildStarts(_, _, _, _)
ChildStarts(text, q, c, lvl) ==
    IF q >= c THEN {}
    ELSE LET k == Kind(text[q])
         IN  (IF lvl = 0 /\ k \in {"open", "prop"} THEN {q} ELSE {})
             \cup ChildStarts(text, q + 1, c,
                     IF k = "open" THEN lvl + 1
                     ELSE IF k = "close" THEN lvl - 1 ELSE lvl)

RECURSIVE ChildEnds(_, _, _, _)
ChildEnds(text, q, c, lvl) ==
    IF q >= c THEN {}
    ELSE LET k == Kind(text[q])
         IN  (IF (lvl = 0 /\ k = "prop") \/ (lvl = 1 /\ k = "close") THEN {q} ELSE {})
             \cup ChildEnds(text, q + 1, c,
                     IF k = "open" THEN lvl + 1
                     ELSE IF k = "close" THEN lvl - 1 ELSE lvl)

\* The write ran to its end on an opened file: the sink holds the whole text.
Written == pc \in {"returned", "generated"} /\ sink # << <<>> >>

(***************************************************************************)
(* C1: in the text cgltf_write_file produces, every construct (the root    *)
(* included) has exactly (children - 1) separators between its direct      *)
(* children, 0 when it has none; no separator stands before the first      *)
(* child and none after the last child before the closing bracket.         *)
(***************************************************************************)
SeparatorsOk(text, o, c) ==
    LET children == ChildStarts(text, o + 1, c, 0)
        ends == ChildEnds(text, o + 1, c, 0)
        seps == {r \in {o} \cup ends : HasSep(text[r])}
    IN  /\ Cardinality(ends) = Cardinality(children)
        /\ Cardinality(seps) = (IF children = {} THEN 0 ELSE Cardinality(children) - 1)
        /\ ~HasSep(text[o])
        /\ ~HasSep(text[c - 1])

\* C1: every construct of the finished text, the root included, has
\* (children - 1) separators, none before its first child, none after its last.
C1_Separators ==
    Written =>
        \A c \in 1 .. Len(sink) :
            Kind(sink[c]) = "close" =>
                /\ OpenerOf(sink, c - 1, 0) # 0
                /\ SeparatorsOk(sink, OpenerOf(sink, c - 1, 0), c)

\* A finished text that holds a construct with at least two children inside
\* a mesh, one of them a nested construct, and so a separator in it.
C1_Witness ==
    /\ Written
    /\ \E c \in 1 .. Len(sink) :
        /\ Kind(sink[c]) = "close"
        /\ IndentOf(sink[c]) >= 2
        /\ LET o == OpenerOf(sink, c - 1, 0)
           IN  /\ o # 0
               /\ Cardinality(ChildStarts(sink, o + 1, c, 0)) >= 2
               /\ \E r \in o + 1 .. c - 1 : HasSep(sink[r])

(***************************************************************************)
(* C2: balanced nesting.  When a cgltf_write_line call closes a construct, *)
(* the depth it leaves equals the depth before the cgltf_write_line call   *)
(* that opened that construct, whatever was emitted in between.            *)
(***************************************************************************)
C2_Balanced ==
    Closes(last.fn, last.text) => (last.od >= 0 /\ last.d1 = last.od)

\* A mesh that holds a name line and a nested primitive has just been closed.
C2_Witness ==
    /\ last.site = "MeshClose"
    /\ last.wrote
    /\ data.meshes[last.mesh + 1].name # NullStr
    /\ Len(data.meshes[last.mesh + 1].primitives) >= 1
    /\ last.d1 = last.od

(***************************************************************************)
(* Property lines of the output: 'label': value                            *)
(***************************************************************************)
IsProperty(L) ==
    LET b == Body(L)
    IN  /\ Kind(L) = "prop"
        /\ Len(b) >= 5
        /\ b[1] = "'" /\ b[3] = "'" /\ b[4] = ":" /\ b[5] = " "

KeyOf(L) == IF IsProperty(L) THEN Body(L)[2] ELSE ""
ValueOf(L) == IF IsProperty(L) THEN SubSeq(Body(L), 6, Len(Body(L))) ELSE <<>>

Digits == {DigitChars[n] : n \in 1 .. 10}
DigitValue(c) == CHOOSE n \in 0 .. 9 : DigitChars[n + 1] = c

IsUnsigned(toks) == toks # <<>> /\ \A n \in 1 .. Len(toks) : toks[n] \in Digits

RECURSIVE ReadUnsigned(_)
ReadUnsigned(toks) ==
    IF toks = <<>> THEN 0
    ELSE 10 * ReadUnsigned(SubSeq(toks, 1, Len(toks) - 1)) + DigitValue(toks[Len(toks)])

\* Whether the tokens are a decimal integer literal, and the integer they denote.
IsInteger(toks) ==
    \/ IsUnsigned(toks)
    \/ toks # <<>> /\ toks[1] = "-" /\ IsUnsigned(Tail(toks))

ReadInteger(toks) ==
    IF toks[1] = "-" THEN 0 - ReadUnsigned(Tail(toks)) ELSE ReadUnsigned(toks)

(***************************************************************************)
(* C3: an index property whose reference points at element k of its        *)
(* declared collection is emitted with the integer k, k = 0 included; for  *)
(* a null reference no line appears.                                       *)
(***************************************************************************)
\* The reference, label and declared collection of the index property the
\* call `e' is about, read from the Document.
RefAt(e) ==
    LET prim == data.meshes[e.mesh + 1].primitives[e.prim + 1]
    IN  CASE e.site = "PrimIndices" -> prim.indices
          [] e.site = "PrimMaterial" -> prim.material
          [] e.site = "Attribute" -> prim.attributes[e.attr + 1].data

LabelAt(e) ==
    CASE e.site = "PrimIndices" -> "indices"
      [] e.site = "PrimMaterial" -> "material"
      [] e.site = "Attribute" ->
            data.meshes[e.mesh + 1].primitives[e.prim + 1].attributes[e.attr + 1].name

CollectionAt(e) ==
    IF e.site = "PrimMaterial"
    THEN [n \in 1 .. NumMaterials |-> materials + (n - 1)]
    ELSE [n \in 1 .. NumAccessors |-> accessors + (n - 1)]

\* Positions <<mesh, primitive>> and <<mesh, primitive, attribute>> of the Document.
PrimPositions ==
    UNION {{<<m, p>> : p \in 1 .. Len(data.meshes[m].primitives)} :
             m \in 1 .. Len(data.meshes)}

AttrPositions ==
    UNION {{<<mp[1], mp[2], a>> :
              a \in 1 .. Len(data.meshes[mp[1]].primitives[mp[2]].attributes)} :
             mp \in PrimPositions}

PresentRefs ==
    Cardinality({mp \in PrimPositions :
                    data.meshes[mp[1]].primitives[mp[2]].indices # NULL})
    + Cardinality({mp \in PrimPositions :
                    data.meshes[mp[1]].primitives[mp[2]].material # NULL})
    + Cardinality({mpa \in AttrPositions :
                    data.meshes[mpa[1]].primitives[mpa[2]].attributes[mpa[3]].data # NULL})

IndexLabels == {"indices", "material"} \cup AttributeNames

\* C3: a present reference to element k is emitted as the integer k (0
\* included); a null reference emits nothing; the finished text holds exactly
\* one index line per present reference.
C3_IndexProps ==
    /\ (last.fn = "idxprop" /\ RefAt(last) = NULL) => ~last.wrote
    /\ (last.fn = "idxprop" /\ RefAt(last) # NULL /\ context.file # NULL) =>
          /\ last.wrote
          /\ KeyOf(sink[last.row]) = LabelAt(last)
          /\ IsInteger(ValueOf(sink[last.row]))
          /\ \E k \in 0 .. Len(CollectionAt(last)) - 1 :
                /\ CollectionAt(last)[k + 1] = RefAt(last)
                /\ ReadInteger(ValueOf(sink[last.row])) = k
    /\ Written =>
          Cardinality({r \in 1 .. Len(sink) : KeyOf(sink[r]) \in IndexLabels}) = PresentRefs

\* An indices reference to element 0 of the accessors has just been emitted as 0.
C3_Witness ==
    /\ last.site = "PrimIndices"
    /\ RefAt(last) = accessors
    /\ last.wrote
    /\ ValueOf(sink[last.row]) = <<"0">>

(***************************************************************************)
(* C4: the string-property emitter.                                        *)
(***************************************************************************)
\* The string the cgltf_write_strprop call `e' was given, read from the Document.
StrAt(e) ==
    IF e.site = "MeshName" THEN data.meshes[e.mesh + 1].name
    ELSE AssetField(data.asset, e.step)

NoEffect(e) ==
    ~e.wrote /\ ~e.ub /\ e.d1 = e.d0 /\ e.nc1 = e.nc0

\* C4 as claimed: writing to an opened file, cgltf_write_strprop appends nothing
\* and leaves the context unchanged when the value is absent or is the empty
\* string.
C4_EmptyIsAbsent ==
    (last.fn = "strprop" /\ context.file # NULL
        /\ (StrAt(last) = NullStr \/ StrAt(last) = Str(""))) =>
        NoEffect(last)

\* C4 as amended: cgltf_write_strprop appends nothing and leaves the context
\* unchanged exactly when the value is absent (null); any other value, the
\* empty string included, is emitted as the line 'label': 'value' and sets
\* needs_comma.
C4_OnlyNullIsAbsent ==
    /\ (last.fn = "strprop" /\ StrAt(last) = NullStr) => NoEffect(last)
    /\ (last.fn = "strprop" /\ StrAt(last) # NullStr) =>
          /\ last.nc1 = 1
          /\ context.file # NULL =>
                /\ last.wrote
                /\ KeyOf(sink[last.row]) = last.text[1]
                /\ ValueOf(sink[last.row]) =
                      (IF StrAt(last)[1] = "" THEN <<"'", "'">>
                       ELSE <<"'", StrAt(last)[1], "'">>)

\* An empty mesh name has just been emitted as 'name': ''.
C4_Witness ==
    /\ last.site = "MeshName"
    /\ StrAt(last) = Str("")
    /\ last.wrote
    /\ Body(sink[last.row]) = <<"'", "name", "'", ":", " ", "'", "'">>

(***************************************************************************)
(* C5: the asset block.                                                    *)
(***************************************************************************)
\* Rows of the output that open the asset block, and the property lines of
\* the block opened at row o.
AssetRows ==
    {r \in 1 .. Len(sink) : Body(sink[r]) = <<"'", "asset", "'", ":", " ", "{">>}

RECURSIVE BlockProps(_, _)
BlockProps(text, q) ==
    IF q > Len(text) \/ ~IsProperty(text[q]) THEN {}
    ELSE {q} \cup BlockProps(text, q + 1)

AssetValues == {data.asset.copyright, data.asset.generator,
                data.asset.version, data.asset.min_version}

PresentAssetFields == Cardinality({n \in 1 .. 4 : AssetField(data.asset, n) # NullStr})

\* C5 as claimed: the asset block is in the output only if one of the four
\* fields is non-empty, and an asset block with no property line is never emitted.
C5_AssetNeedsNonEmptyField ==
    Written =>
        /\ AssetRows # {} => \E v \in AssetValues : v # NullStr /\ v # Str("")
        /\ \A o \in AssetRows : BlockProps(sink, o + 1) # {}

\* C5 as amended: the asset block is in the output exactly when one of the
\* four fields is present (not null), an empty string counting as present;
\* it is emitted once, with one property line per present field, so never
\* with no property line.
C5_AssetNeedsPresentField ==
    Written =>
        /\ AssetRows # {} <=> PresentAssetFields >= 1
        /\ Cardinality(AssetRows) <= 1
        /\ \A o \in AssetRows :
              /\ Cardinality(BlockProps(sink, o + 1)) = PresentAssetFields
              /\ BlockProps(sink, o + 1) # {}
              /\ Kind(sink[o + 1 + PresentAssetFields]) = "close"

\* A finished text whose asset block holds only an empty min_version.
C5_Witness ==
    /\ Written
    /\ data.asset.min_version = Str("")
    /\ PresentAssetFields = 1
    /\ \E o \in AssetRows : Cardinality(BlockProps(sink, o + 1)) = 1

(***************************************************************************)
(* C6: when the output path cannot be opened, cgltf_write_file performs no *)
(* write on the unopened sink and does not report success.                 *)
(***************************************************************************)
OpenFailed == pc # "parse" /\ context.file = NULL

\* C6: once fopen has failed, no stdio or emitter call is made on the null
\* FILE* and cgltf_write_file does not return success.
C6_AbortsOnOpenFailure ==
    OpenFailed => (~last.ub /\ last.fn = "none" /\ result # "cgltf_result_success")

(***************************************************************************)
(* C7: a primitive's mode line is emitted if and only if its mode differs  *)
(* from triangles (4), and then carries the mode.                          *)
(***************************************************************************)
ModeAt(e) == data.meshes[e.mesh + 1].primitives[e.prim + 1].type

NonDefaultModes ==
    Cardinality({mp \in PrimPositions :
        data.meshes[mp[1]].primitives[mp[2]].type # cgltf_primitive_type_triangles})

\* C7: the mode call writes nothing for mode 4 and writes 'mode': <mode> for
\* any other mode; the finished text holds one mode line per such primitive.
C7_ModeSuppression ==
    /\ (last.site = "PrimMode" /\ ModeAt(last) = cgltf_primitive_type_triangles) =>
          NoEffect(last)
    /\ (last.site = "PrimMode" /\ ModeAt(last) # cgltf_primitive_type_triangles
            /\ context.file # NULL) =>
          /\ last.wrote
          /\ KeyOf(sink[last.row]) = "mode"
          /\ IsInteger(ValueOf(sink[last.row]))
          /\ ReadInteger(ValueOf(sink[last.row])) = ModeAt(last)
    /\ Written =>
          Cardinality({r \in 1 .. Len(sink) : KeyOf(sink[r]) = "mode"}) = NonDefaultModes

\* A points primitive (mode 0) has just had its mode line emitted.
C7_Witness ==
    /\ last.site = "PrimMode"
    /\ ModeAt(last) = cgltf_primitive_type_points
    /\ last.wrote
    /\ ValueOf(sink[last.row]) = <<"0">>

(***************************************************************************)
(* C8: the output holds exactly one placeholder construct for each of the  *)
(* 13 categories, in the fixed order, each empty: its opening line is      *)
(* directly followed by its closing line, with no separator between them.  *)
(***************************************************************************)
Categories ==
    <<"accessors", "bufferViews", "buffers", "materials", "images",
      "textures", "samplers", "skins", "cameras", "nodes", "scenes",
      "scene", "animations">>

CategoryLine(k) == <<"'", Categories[k], "'", ":", " ", "{">>

\* The placeholders fill the 26 rows before the root's closing line, which is
\* followed by the empty row after the final newline.
PlaceholderRow(k) == Len(sink) - 2 - 2 * (Len(Categories) - k + 1) + 1

\* C8: the 13 placeholder blocks, once each, in order, each empty.
C8_Placeholders ==
    Written =>
        \A k \in 1 .. Len(Categories) :
            /\ PlaceholderRow(k) >= 1
            /\ Body(sink[PlaceholderRow(k)]) = CategoryLine(k)
            /\ ~HasSep(sink[PlaceholderRow(k)])
            /\ Body(sink[PlaceholderRow(k) + 1]) = <<"}">>
            /\ IndentOf(sink[PlaceholderRow(k) + 1]) = IndentOf(sink[PlaceholderRow(k)])
            /\ Cardinality({r \in 1 .. Len(sink) : Body(sink[r]) = CategoryLine(k)}) = 1

\* A finished text of a Document whose primitive refers to a material: the
\* materials collection has content and its placeholder is empty all the same.
C8_Witness ==
    /\ Written
    /\ \E mp \in PrimPositions : data.meshes[mp[1]].primitives[mp[2]].material # NULL
    /\ Body(sink[PlaceholderRow(4)]) = <<"'", "materials", "'", ":", " ", "{">>
    /\ Body(sink[PlaceholderRow(4) + 1]) = <<"}">>

(***************************************************************************)
(* C9: the text is written in one pass: root opened, asset block (if       *)
(* emitted), meshes opened, every mesh once in collection order, meshes    *)
(* closed, placeholders, root closed; nothing of an earlier section comes  *)
(* after a later one.                                                      *)
(***************************************************************************)
\* The top-level lines of the text (the root's brackets and the root's direct
\* children's own lines), in order.
TopLevel(text) ==
    LET top == SelectSeq(text, LAMBDA L : IndentOf(L) <= 1)
    IN  [n \in 1 .. Len(top) |-> Body(top[n])]

PlaceholderLines ==
    [n \in 1 .. 2 * Len(Categories) |->
        IF n % 2 = 1 THEN CategoryLine((n + 1) \div 2) ELSE <<"}">>]

ExpectedTopLevel ==
    << <<"{">> >>
    \o (IF PresentAssetFields >= 1
        THEN << <<"'", "asset", "'", ":", " ", "{">>, <<"}">> >> ELSE <<>>)
    \o << <<"'", "meshes", "'", ":", " ", "[">>, <<"]">> >>
    \o PlaceholderLines
    \o << <<"}">>, <<>> >>

IsPrefix(a, b) == Len(a) <= Len(b) /\ a = SubSeq(b, 1, Len(a))

\* Rows that open a mesh block, in order, and for the block opened at row o
\* the row that closes it.
MeshRows ==
    SelectSeq([r \in 1 .. Len(sink) |-> r],
              LAMBDA r : IndentOf(sink[r]) = 2 /\ Body(sink[r]) = <<"{">>)

MeshEnd(o) ==
    CHOOSE c \in o + 1 .. Len(sink) :
        /\ IndentOf(sink[c]) = 2
        /\ \A r \in o + 1 .. c - 1 : IndentOf(sink[r]) > 2

\* What identifies a mesh in the text: its name line and the number of its
\* primitive blocks.
MeshInText(o) ==
    [name |-> IF KeyOf(sink[o + 1]) = "name" /\ IndentOf(sink[o + 1]) = 3
              THEN ValueOf(sink[o + 1]) ELSE <<>>,
     prims |-> Cardinality({r \in o + 1 .. MeshEnd(o) :
                    IndentOf(sink[r]) = 4 /\ Body(sink[r]) = <<"{">>})]

MeshInDocument(mesh) ==
    [name |-> IF mesh.name = NullStr THEN <<>>
              ELSE IF mesh.name[1] = "" THEN <<"'", "'">>
              ELSE <<"'", mesh.name[1], "'">>,
     prims |-> Len(mesh.primitives)]

Writing == context.file # NULL /\ pc \notin {"parse", "root_open", "crashed"}

\* C9: while writing, the top-level lines are a prefix of the fixed order of
\* sections; the finished text holds all of them and each mesh of the
\* Document once, in collection order.
C9_SinglePass ==
    /\ Writing => IsPrefix(TopLevel(sink), ExpectedTopLevel)
    /\ Written =>
          /\ TopLevel(sink) = ExpectedTopLevel
          /\ Len(MeshRows) = Len(data.meshes)
          /\ \A m \in 1 .. Len(MeshRows) :
                /\ Body(sink[MeshEnd(MeshRows[m])]) = <<"}">>
                /\ MeshInText(MeshRows[m]) = MeshInDocument(data.meshes[m])

\* A finished text with an asset block and two meshes that differ.
C9_Witness ==
    /\ Written
    /\ PresentAssetFields >= 1
    /\ Len(data.meshes) = 2
    /\ MeshInDocument(data.meshes[1]) # MeshInDocument(data.meshes[2])
    /\ Len(MeshRows) = 2

(***************************************************************************)
(* C10: for a mesh with no primitives the primitives opening line is       *)
(* directly followed by its closing ']' line, with no separator and no     *)
(* content between them, also when the mesh name was emitted just before.  *)
(***************************************************************************)
\* C10: the ']' of an empty primitives construct directly follows its
\* opening line, which carries no separator.
C10_EmptyPrimitives ==
    (last.site = "PrimitivesClose" /\ context.file # NULL
        /\ Len(data.meshes[last.mesh + 1].primitives) = 0) =>
        /\ last.wrote
        /\ last.row >= 2
        /\ Body(sink[last.row]) = <<"]">>
        /\ Body(sink[last.row - 1]) = <<"'", "primitives", "'", ":", " ", "[">>
        /\ ~HasSep(sink[last.row - 1])
        /\ IndentOf(sink[last.row]) = IndentOf(sink[last.row - 1])

\* The primitives construct of a named mesh with no primitives has just been
\* closed; the name line before it carries the separator.
C10_Witness ==
    /\ last.site = "PrimitivesClose"
    /\ last.wrote
    /\ Len(data.meshes[last.mesh + 1].primitives) = 0
    /\ data.meshes[last.mesh + 1].name # NullStr
    /\ KeyOf(sink[last.row - 2]) = "name"
    /\ HasSep(sink[last.row - 2])

(***************************************************************************)
(* C11: the lines of a primitive block.                                    *)
(***************************************************************************)
\* What a line of the text says: an integer property by its key and value,
\* any other line by its text.
LineItem(L) ==
    IF IsProperty(L) /\ IsInteger(ValueOf(L))
    THEN [key |-> KeyOf(L), num |-> ReadInteger(ValueOf(L)), text |-> <<>>]
    ELSE [key |-> "", num |-> 0, text |-> Body(L)]

IntItem(key, num) == [key |-> key, num |-> num, text |-> <<>>]
TextItem(text) == [key |-> "", num |-> 0, text |-> text]

\* Position of a reference in the collection that starts at `base'.
PositionIn(ref, base, size) == CHOOSE k \in 0 .. size - 1 : base + k = ref

RECURSIVE AttributeItems(_)
AttributeItems(attrs) ==
    IF attrs = <<>> THEN <<>>
    ELSE (IF Head(attrs).data # NULL
          THEN <<IntItem(Head(attrs).name,
                         PositionIn(Head(attrs).data, accessors, NumAccessors))>>
          ELSE <<>>)
         \o AttributeItems(Tail(attrs))

\* The lines the primitive `prim' of the Document has between the braces of
\* its block.
PrimitiveItems(prim) ==
    (IF prim.type # cgltf_primitive_type_triangles
     THEN <<IntItem("mode", prim.type)>> ELSE <<>>)
    \o (IF prim.indices # NULL
        THEN <<IntItem("indices", PositionIn(prim.indices, accessors, NumAccessors))>>
        ELSE <<>>)
    \o (IF prim.material # NULL
        THEN <<IntItem("material", PositionIn(prim.material, materials, NumMaterials))>>
        ELSE <<>>)
    \o <<TextItem(KeyOpen("attributes", "["))>>
    \o AttributeItems(prim.attributes)
    \o <<TextItem(<<"]">>)>>

\* The row that opens the block the line written last closes, and the row
\* that opens the construct around that block.
BlockOpen == OpenerOf(sink, last.row - 1, 0)
AroundOpen == OpenerOf(sink, BlockOpen - 1, 0)

CallOver == pc \in {"returned", "generated", "crashed"}

\* C12: a call that returns has called fclose exactly once, after its last
\* write; no call ends, by returning or by the death of the process, with its
\* FILE open; fclose is never called twice; nothing is written after fclose.
C12_ClosedOnce ==
    /\ pc \in {"returned", "generated"} => stdio.fclose_calls = 1
    /\ CallOver => ~stdio.open
    /\ stdio.fclose_calls <= 1
    /\ stdio.fclose_calls > 0 => (CallOver /\ last.site = "RootClose")
    /\ stdio.open => (context.file # NULL /\ stdio.fclose_calls = 0)

\* A call that opened its FILE and wrote the whole text has returned.
C12_Witness ==
    /\ pc = "returned"
    /\ Written
    /\ context.file # NULL
    /\ last.wrote
    /\ stdio.fclose_calls = 1

(***************************************************************************)
(* C13: two calls on one Document with their steps interleaved.            *)
(***************************************************************************)
\* Whether the lines `text' are a beginning of the lines `whole'.
Begins(text, whole) ==
    /\ Len(text) <= Len(whole)
    /\ \A r \in 1 .. Len(text) - 1 : text[r] = whole[r]
    /\ IsPrefix(text[Len(text)], whole[Len(text)])

\* C13: while two calls on the same Document for different paths run with
\* their steps interleaved in any way, the Document stays as it was, the
\* file of each call holds a beginning of the text the call run alone left,
\* and each call that has returned leaves exactly that text.
C13_Independent ==
    calls.phase = "pair" =>
        /\ data = calls.first.data
        /\ pc \notin {"parse", "root_open"} => Begins(sink, calls.first.text)
        /\ calls.other.pc \notin {"parse", "root_open"} =>
              Begins(calls.other.sink, calls.first.text)
        /\ pc = "returned" =>
              (sink = calls.first.text /\ result = "cgltf_result_success")
        /\ calls.other.pc = "returned" =>
              (calls.other.sink = calls.first.text
               /\ calls.other.result = "cgltf_result_success")

\* One call has returned with the whole text while the other call, started
\* before, is in the middle of a primitive.
C13_Witness ==
    /\ calls.phase = "pair"
    /\ pc = "returned"
    /\ sink = calls.first.text
    /\ Len(sink) > 30
    /\ calls.other.pc = "prim_material"
    /\ calls.other.sink # << <<>> >>
    /\ calls.other.context.depth = 5

(***************************************************************************)
(* C14: writing the same Document twice.                                   *)
(***************************************************************************)
\* C14: a second call on the same, unchanged Document, made after the first
\* has returned, starts from depth 1 with no separator pending whatever the
\* first call left behind, and leaves the text the first call left.
C14_Idempotent ==
    calls.phase = "pair" =>
        /\ pc = "root_open" => (context.depth = 1 /\ context.needs_comma = 0)
        /\ (calls.turn = 1 /\ calls.other.pc = "parse" /\ pc = "returned") =>
              (sink = calls.first.text /\ result = "cgltf_result_success")

\* The second call has returned before the third was started; the first call
\* had ended with a separator pending.
C14_Witness ==
    /\ calls.phase = "pair"
    /\ calls.turn = 1
    /\ calls.other.pc = "parse"
    /\ calls.other.context.needs_comma = 1
    /\ pc = "returned"
    /\ data.meshes # <<>>
    /\ sink = calls.first.text
    /\ Len(sink) > 30

(***************************************************************************)
(* C15: the pending separator.                                             *)
(***************************************************************************)
\* Between two emitter calls of a call that opened its file: after the root
\* brace is written and before the root is closed.
BetweenCalls ==
    /\ context.file # NULL
    /\ pc \notin {"parse", "root_open", "fclose", "returned", "generated", "crashed"}

\* The line emitted last: the last line of the text.
LastLine == sink[Len(sink)]

\* C15: between emitter calls needs_comma is set exactly when the line
\* emitted last is a property line or begins with a closing bracket, and
\* clear when it ends with an opening bracket (the root brace, when no
\* emitter has written yet); an emitter that writes a line puts a separator
\* before it exactly when needs_comma was set at the call and the line does
\* not begin with a closing bracket.
C15_PendingSeparator ==
    /\ BetweenCalls =>
          /\ context.needs_comma \in {0, 1}
          /\ context.needs_comma = 1 <=> Kind(LastLine) \in {"prop", "close"}
          /\ Kind(LastLine) = "open" => context.needs_comma = 0
          /\ last.fn = "fputs" => (context.needs_comma = 0 /\ sink = << <<"{">> >>)
    /\ (context.file # NULL /\ last.fn \in {"line", "strprop", "intprop", "idxprop"}
          /\ last.wrote) =>
          (HasSep(sink[last.row - 1]) <=> (last.nc0 = 1 /\ ~Closes(last.fn, last.text)))

\* A property line has just been written after another property line, with a
\* separator put before it, and needs_comma is set again.
C15_Witness ==
    /\ BetweenCalls
    /\ last.fn = "strprop"
    /\ last.wrote
    /\ last.nc0 = 1
    /\ HasSep(sink[last.row - 1])
    /\ Kind(sink[last.row - 1]) = "prop"
    /\ context.needs_comma = 1

(***************************************************************************)
(* C16: the nesting depth.                                                 *)
(***************************************************************************)
\* Number of lines of the text, the root brace aside, that opened a
\* construct, less the number of lines that closed one.
OpenInText ==
    Cardinality({r \in 2 .. Len(sink) : Kind(sink[r]) = "open"})
    - Cardinality({r \in 2 .. Len(sink) : Kind(sink[r]) = "close"})

\* C16: a cgltf_write_line call changes depth by +1 when its line ends with
\* an opening bracket and by -1 when it begins with a closing bracket; no
\* property emitter and no direct write changes it, whatever the label or
\* the value holds; depth is 1 + the number of constructs opened by
\* cgltf_write_line and not closed yet, never below 1, and 1 when the root
\* closer is written.
C16_Depth ==
    /\ last.fn \in {"strprop", "intprop", "idxprop", "fputs"} => last.d1 = last.d0
    /\ last.fn = "line" =>
          last.d1 = last.d0 + (IF Opens(last.fn, last.text) THEN 1 ELSE 0)
                            - (IF Closes(last.fn, last.text) THEN 1 ELSE 0)
    /\ pc # "parse" =>
          /\ context.depth = 1 + Len(opened)
          /\ context.depth >= 1
    /\ BetweenCalls => context.depth = 1 + OpenInText
    /\ last.site = "RootClose" => (last.d0 = 1 /\ last.d1 = 1 /\ opened = <<>>)

\* A mesh name that is an opening brace has just been written as a property
\* line inside the mesh block, and depth is what it was.
C16_Witness ==
    /\ BetweenCalls
    /\ last.site = "MeshName"
    /\ last.wrote
    /\ data.meshes[last.mesh + 1].name = Str("{")
    /\ ValueOf(LastLine) = <<"'", "{", "'">>
    /\ last.d1 = last.d0
    /\ context.depth = 3

(***************************************************************************)
(* C17: indentation.                                                       *)
(***************************************************************************)
\* Indentation of the line that opens the construct around row r of the text.
IndentAround(r) == IndentOf(sink[OpenerOf(sink, r - 1, 0)])

\* C17: a line an emitter writes is the last line of the text and nothing
\* else is on it but its indentation, one two-space unit per construct open
\* around it (the root included), a closing line counting as outside the
\* construct it closes; in the finished text every closing line is indented
\* as the line that opened its construct and every other line one unit more
\* than the line that opened the construct around it.
C17_Indentation ==
    /\ (context.file # NULL /\ last.fn \in {"line", "strprop", "intprop", "idxprop"}
          /\ last.wrote) =>
          /\ last.row = Len(sink)
          /\ context.indent = "  "
          /\ \A n \in 1 .. IndentOf(LastLine) : LastLine[n] = context.indent
          /\ IndentOf(LastLine) =
                (IF Closes(last.fn, last.text) THEN last.od
                 ELSE IF Opens(last.fn, last.text) THEN Len(opened)
                 ELSE 1 + Len(opened))
          /\ IF last.fn = "line" THEN StripIndent(LastLine) = last.text
             ELSE KeyOf(LastLine) = last.text[1]
    /\ Written =>
          \A r \in 2 .. Len(sink) - 1 :
              IndentOf(sink[r]) =
                  IF Kind(sink[r]) = "close" THEN IndentAround(r) ELSE IndentAround(r) + 1

\* A primitive block has just been closed: its closing line is indented four
\* units like its opening line, the line after the opening line five.
C17_Witness ==
    /\ last.site = "PrimClose"
    /\ context.file # NULL
    /\ last.wrote
    /\ IndentOf(LastLine) = 4
    /\ IndentOf(sink[BlockOpen]) = 4
    /\ IndentOf(sink[BlockOpen + 1]) = 5
    /\ LastLine = <<"  ", "  ", "  ", "  ", "}">>

(***************************************************************************)
(* C18: references that do not point into their collection.                *)
(***************************************************************************)
\* Whether the reference of the index property call `e' is neither null nor
\* an element of the collection the call names.
Dangling(e) ==
    /\ RefAt(e) # NULL
    /\ \A n \in DOMAIN CollectionAt(e) : CollectionAt(e)[n] # RefAt(e)

\* The integer values of the index lines of the text.
IndexValues ==
    {ReadInteger(ValueOf(sink[r])) :
        r \in {q \in 1 .. Len(sink) : KeyOf(sink[q]) \in IndexLabels}}

\* C18: an index property call given a reference outside its collection
\* writes its line all the same, with the offset of the reference from the
\* collection's base as the value, below 0 or at or above the size; the call
\* goes on, and cgltf_write_file returns cgltf_result_success with those
\* values in the text.
C18_NoValidation ==
    /\ (last.fn = "idxprop" /\ Dangling(last)) =>
          /\ last.wrote
          /\ pc # "crashed"
          /\ KeyOf(LastLine) = LabelAt(last)
          /\ IsInteger(ValueOf(LastLine))
          /\ ReadInteger(ValueOf(LastLine)) = RefAt(last) - CollectionAt(last)[1]
          /\ \/ ReadInteger(ValueOf(LastLine)) < 0
             \/ ReadInteger(ValueOf(LastLine)) >= Len(CollectionAt(last))
    /\ (calls.phase = "first" /\ pc = "returned") =>
          /\ result = "cgltf_result_success"
          /\ data = DanglingDocument =>
                IndexValues = {0 - 1, NumMaterials, NumAccessors}

\* The write of a Document with a reference one element before the accessors
\* and references one element past the materials and the accessors has
\* returned; the text holds the indices -1 and the two sizes.
C18_Witness ==
    /\ calls.phase = "first"
    /\ pc = "returned"
    /\ data = DanglingDocument
    /\ result = "cgltf_result_success"
    /\ \E r \in 1 .. Len(sink) :
          KeyOf(sink[r]) = "indices" /\ ValueOf(sink[r]) = <<"-", "1">>
    /\ \E r \in 1 .. Len(sink) :
          KeyOf(sink[r]) = "material" /\ ReadInteger(ValueOf(sink[r])) = NumMaterials

(***************************************************************************)
(* C19: suppressed property emissions.                                     *)
(***************************************************************************)
\* Whether the property call `e' was given what its emitter suppresses: the
\* default for an integer property, a null reference for an index property,
\* a null string for a string property.
Suppressed(e) ==
    \/ e.fn = "intprop" /\ e.num = e.base
    \/ e.fn = "idxprop" /\ e.num = NULL
    \/ e.fn = "strprop" /\ e.str = NullStr

\* C19: a suppressed property call appends nothing and leaves depth and
\* needs_comma as they were; so whatever calls were suppressed in between, a
\* line that does not close a construct gets a separator before it exactly
\* when the line before it in the text is a property line or a closing line,
\* and none when that line opened the construct.
C19_Suppressed ==
    /\ Suppressed(last) =>
          /\ NoEffect(last)
          /\ pc # "crashed" =>
                (context.depth = last.d0 /\ context.needs_comma = last.nc0)
    /\ (context.file # NULL /\ last.fn \in {"line", "strprop", "intprop", "idxprop"}
          /\ last.wrote /\ ~Closes(last.fn, last.text)) =>
          (HasSep(sink[last.row - 1]) <=> Kind(sink[last.row - 1]) \in {"prop", "close"})

\* An index property with a null reference has just been suppressed after a
\* mode line was written: the separator is still pending.
C19_Witness ==
    /\ BetweenCalls
    /\ last.site = "PrimIndices"
    /\ Suppressed(last)
    /\ last.nc0 = 1
    /\ context.needs_comma = 1
    /\ KeyOf(LastLine) = "mode"
    /\ ~HasSep(LastLine)

(***************************************************************************)
(* C20: the brackets of the whole text.                                    *)
(***************************************************************************)
\* The closing bracket that belongs to an opening bracket.
CloserFor(b) == IF b = "[" THEN "]" ELSE "}"

\* Whether the brackets of the lines from row r on are properly nested, given
\* the opening brackets not closed yet, innermost last: an opening line
\* pushes its last character; a closing line must find its first character
\* to be the closer of the innermost open bracket, which it pops; when the
\* outermost bracket is closed no further bracket may follow.
RECURSIVE Nested(_, _, _)
Nested(text, r, open) ==
    IF r > Len(text) THEN open = <<>>
    ELSE LET k == Kind(text[r])
             b == Body(text[r])
         IN  IF k = "open" THEN Nested(text, r + 1, Append(open, b[Len(b)]))
             ELSE IF k = "close"
                  THEN /\ open # <<>>
                       /\ b[1] = CloserFor(open[Len(open)])
                       /\ IF Len(open) = 1
                          THEN \A q \in r + 1 .. Len(text) : Kind(text[q]) \in {"prop", "blank"}
                          ELSE Nested(text, r + 1, SubSeq(open, 1, Len(open) - 1))
             ELSE Nested(text, r + 1, open)

\* C20: in the whole text of a call that opened its file, the root brace,
\* the last character of every opening line and the first character of
\* every closing line are properly nested: each opening bracket is closed
\* once, by the closer of its kind, innermost first, and the root closer is
\* the last bracket of the text.
C20_Nested ==
    Written =>
        /\ sink[1] = <<"{">>
        /\ Nested(sink, 1, <<>>)
        /\ Body(sink[Len(sink) - 1]) = <<"}">>
        /\ Cardinality({r \in 1 .. Len(sink) : Kind(sink[r]) = "open"})
              = Cardinality({r \in 1 .. Len(sink) : Kind(sink[r]) = "close"})

\* A text with an attributes array inside a primitive inside a mesh has been
\* written whole.
C20_Witness ==
    /\ Written
    /\ \E r \in 1 .. Len(sink) :
          /\ Body(sink[r]) = KeyOpen("attributes", "[")
          /\ IndentOf(sink[r]) = 5
          /\ Body(sink[r + 1]) = <<"]">>
          /\ Body(sink[r + 2]) = <<"}">>
    /\ Nested(sink, 1, <<>>)

=============================================================================
